---- MODULE Spec2Model ----
(***************************************************************************)
(* Block mode of the listener (src/src/services/blockMonitorListener.ts):  *)
(* the fetch stage (doFetch), the process stage (tryStartProcessors,       *)
(* processBlock), the checkpoint advance (attemptAdvance) and the          *)
(* checkpoint file (loadLastSlot, saveLastSlot).                           *)
(*                                                                         *)
(* The program runs on one cooperative thread: a step of the model is the  *)
(* synchronous code between two suspension points (an await of getBlock,   *)
(* of sendAlert, of saveLastSlot, or a timer).                             *)
(*                                                                         *)
(* Further parts, each with a specification of its own that holds the      *)
(* variables of the other parts at rest: the subscription loop and the     *)
(* signal handlers of both listeners (ensureSubscription of                *)
(* blockMonitorListener.ts, ensureSubscriptions of ranges.ts, the entry    *)
(* point src/unnamed/part_000); the log-event handler of the second        *)
(* listener (ranges.ts 112-208) with its recently-seen set and its         *)
(* per-label checkpoint; the instruction parser (blockParser.ts) applied   *)
(* to one transaction; one run of processBlock over a block, with the      *)
(* range matcher (parseRanges, amountMatchesRanges of ranges.ts).          *)
(***************************************************************************)
EXTENDS Integers, Sequences, FiniteSets, TLC

\* ---------------------------------------------------------------- bounds
MaxSlot == 2            \* slots the slot-update feed reports: 1..MaxSlot
MaxTip == 1             \* largest tip getSlot answers at startup
MaxBootFile == 0        \* largest checkpoint a previous run left in the file
MaxObserve == 3         \* slot updates in one run that lead to a getBlock call
MaxFaults == 1          \* faults in one run: transient getBlock failures,
                        \* processing errors, failed checkpoint writes
AdvMaxCheckpoint == 4   \* attemptAdvance in isolation: checkpoints 0..4
AdvMaxSlot == 7         \* attemptAdvance in isolation: ProcessedSet within 1..7
MaxLabels == 2          \* watched addresses (CEX_n_LABEL): labels 1..MaxLabels
MaxFailures == 9        \* consecutive subscribe attempts the provider refuses
MaxEvents == 2          \* log events in one run
MaxInFlight == 2        \* log-event handlers suspended at the same time
MaxTxSlot == 2          \* slots of the fetched transactions: 1..MaxTxSlot
MaxInstr == 2           \* instructions in one transaction
MaxTxs == 2             \* transactions in one block

\* ---------------------------------------------------------------- constants
processConcurrency == 2 \* BLOCK_PROCESS_CONCURRENCY (default 8)
NoFile == -1            \* loadLastSlot found no readable checkpoint
backoffFloor == 500     \* let backoffMs = 500
processedTxsMaxSize == 4 \* const processedTxsMaxSize = 10000
backoffCeiling == 60000 \* Math.min(backoffMs * 2, 60000)
SYSTEM_PROGRAM == "11111111111111111111111111111111"
LAMPORTS_PER_SOL == 1000000000 \* info.lamports / 1e9
NoIndex == -1           \* an index that is undefined

Slots == 1..MaxSlot
Labels == 1..MaxLabels
\* transaction signatures: a signature is named by the rank of its first
\* delivery
Sigs == 1..(processedTxsMaxSize + MaxEvents)
TxSlots == 1..MaxTxSlot

VARIABLES
  phase,            \* "boot" before startBlockMonitorListener ran, then "running"
  file,             \* lastSlot stored in data/lastSlot.json, or NoFile
  lastSlot,         \* let lastSlot
  inFlightFetches,  \* const inFlightFetches: Set<number>
  processedSlots,   \* const processedSlots: Map<number, boolean> (its keys)
  processQueue,     \* const processQueue: Array<{slot, blockData}>
  processWorkers,   \* let processWorkers
  fetching,         \* per slot: getBlock calls that have not returned
  retryTimers,      \* per slot: pending 500 ms refetch timers
  procActive,       \* per slot: processBlock calls inside the transaction loop
  requeueTimers,    \* per slot: pending 1 s re-enqueue timers
  advTasks,         \* attemptAdvance calls suspended at await saveLastSlot
  callStart,        \* attemptAdvance in isolation: checkpoint and set at the call
  fetchCalls,       \* history, per slot: getBlock calls issued
  okCount,          \* history, per slot: getBlock calls that returned a block
  skipCount,        \* history, per slot: getBlock calls classified as skipped
  doneCount,        \* history, per slot: processBlock runs that completed
  failCount,        \* history, per slot: transient getBlock failures
  errCount,         \* history, per slot: processing errors
  writeFailCount    \* history: failed writes of the checkpoint file

blockVars ==
  <<phase, file, lastSlot, inFlightFetches, processedSlots, processQueue,
    processWorkers, fetching, retryTimers, procActive, requeueTimers,
    advTasks, callStart, fetchCalls, okCount, skipCount, doneCount, failCount,
    errCount, writeFailCount>>

VARIABLES
  mode,             \* "block": startBlockMonitorListener, "log": the listener of
                    \* ranges.ts that the entry point starts
  subPc,            \* the subscription loop: "init" not yet called, "waiting" in
                    \* the backoff wait, "active" returned, "stopped" left the loop
  backoffMs,        \* let backoffMs
  shuttingDown,     \* let shuttingDown
  subscriptionIds,  \* const subscriptionIds: number[] / let subscriptionId
  handlers,         \* the SIGINT/SIGTERM listeners of the process, in
                    \* registration order
  exitSignal,       \* "none", or the signal on which the process has exited
  removed,          \* history: subscriptions an unsubscribe call was made for
  streak,           \* history: consecutive failed subscribe attempts
  waitMs,           \* history: the delay given to the pending setTimeout
  attempts          \* history: subscribe attempts made

subVars == <<mode, subPc, backoffMs, shuttingDown, subscriptionIds, handlers,
             exitSignal, removed, streak, waitMs, attempts>>

VARIABLES
  processedTxs,     \* const processedTxs: Set<string>, in insertion order
  lastSlots,        \* const lastSlots: per label, 0 for no entry
  slotFile,         \* data/lastSlot.json as the log listener writes it: per
                    \* label, 0 for no entry
  logTasks,         \* log-event handlers that are suspended
  handledMax,       \* history, per label: the largest slot among the
                    \* transactions whose handler reached line 199
  bootSlots,        \* history: lastSlots as loadLastSlot returned it
  events,           \* history: log events delivered
  delivered,        \* history: distinct signatures delivered
  admitted,         \* history: <<label, signature>> of the events whose handler
                    \* went on past line 119 to fetch and parse
  dropped           \* history: <<label, signature>> of the events that
                    \* returned at line 118

logVars == <<processedTxs, lastSlots, slotFile, logTasks, handledMax,
             bootSlots, events, delivered, admitted, dropped>>

\* the instruction parser (blockParser.ts): the transaction and watched
\* address it is called with, and how the call ended
VARIABLES
  tx,             \* the transaction handed to parseBlockTransactions
  cexAddress,     \* the watched address handed to it
  results,        \* the Outflows the call returned
  parserPc        \* "idle", "called", "returned", "threw"

parserVars == <<tx, cexAddress, results, parserPc>>

\* one run of processBlock (blockMonitorListener.ts)
VARIABLES
  blockData,      \* the transactions of the block being processed
  configs,        \* the watched addresses: label, address, ranges text
  alerts,         \* the alerts handed to sendAlert, in order
  visited,        \* outflows of the loop nest that have been dealt with
  runPc           \* "idle", "scan", "await", "done", "failed"

runVars == <<blockData, configs, alerts, visited, runPc>>

vars == <<blockVars, subVars, logVars, parserVars, runVars>>

\* the variables a block-mode step leaves alone
outsideBlock == <<subVars, logVars, parserVars, runVars>>
\* the variables a step of the subscription loop leaves alone
outsideSubscription == <<blockVars, logVars, parserVars, runVars>>
\* the variables a step of the log-event handler leaves alone
outsideLog == <<blockVars, subVars, parserVars, runVars>>
\* the variables a step of the parser leaves alone
outsideParser == <<blockVars, subVars, logVars, runVars>>
\* the variables a step of one processBlock run leaves alone
outsideRun == <<blockVars, subVars, logVars, parserVars>>

NoSlots == [l \in Labels |-> 0]

hist == <<fetchCalls, okCount, skipCount, doneCount, failCount, errCount,
          writeFailCount>>

Zero == [s \in Slots |-> 0]
NoCall == [state |-> "none", c |-> 0, P |-> {}]

\* the sum of a per-slot counter
RECURSIVE SumUpTo(_, _)
SumUpTo(f, n) == IF n = 0 THEN 0 ELSE f[n] + SumUpTo(f, n - 1)
Total(f) == SumUpTo(f, MaxSlot)

\* how many times slot s stands in queue q
RECURSIVE CountIn(_, _)
CountIn(q, s) ==
  IF q = <<>> THEN 0 ELSE (IF Head(q) = s THEN 1 ELSE 0) + CountIn(Tail(q), s)

\* ---------------------------------------------------------------- helpers

\* doFetch without the processedSlots test of line 97
ShouldFetchIgnoresProcessed(s, ls, inf, ps) == s > ls /\ s \notin inf

\* doFetch, lines 96-97: the two early returns
ShouldFetch(s, ls, inf, ps) == s > ls /\ s \notin inf /\ s \notin ps

\* tryStartProcessors comparing with <= instead of <
CanStartOffByOne(w, q) == w <= processConcurrency /\ Len(q) > 0

\* tryStartProcessors, line 133: the loop condition
CanStart(w, q) == w < processConcurrency /\ Len(q) > 0

\* tryStartProcessors: shift items while the condition holds; processBlock
\* increments processWorkers before it first suspends
RECURSIVE tryStartProcessors(_, _, _)
tryStartProcessors(w, q, act) ==
  IF CanStart(w, q)
  THEN tryStartProcessors(w + 1, Tail(q), [act EXCEPT ![Head(q)] = @ + 1])
  ELSE [workers |-> w, queue |-> q, active |-> act]

\* attemptAdvance stepping over a one-slot gap
HasNextOverGap(ls, ps) == (ls + 1) \in ps \/ (ls + 2) \in ps

\* attemptAdvance, lines 188-189
HasNext(ls, ps) == (ls + 1) \in ps

\* attemptAdvance without the delete of line 191
DeleteSlotKeeps(ps, n) == ps

\* attemptAdvance, line 191
DeleteSlot(ps, n) == ps \ {n}

\* attemptAdvance, one turn of the loop up to await saveLastSlot (or the break)
AdvanceTurn(ls, ps) ==
  IF HasNext(ls, ps)
  THEN [saving |-> TRUE, lastSlot |-> ls + 1, processed |-> DeleteSlot(ps, ls + 1)]
  ELSE [saving |-> FALSE, lastSlot |-> ls, processed |-> ps]

Running == phase = "running"

\* faults so far, and getBlock calls the feed has caused so far (every call a
\* refetch timer makes follows a fault)
Faults == Total(failCount) + Total(errCount) + writeFailCount
Observed == Total(fetchCalls)

\* ---------------------------------------------------------------- Init

\* the subscription loop before it is called
SubscriptionIdle ==
  /\ mode = "block"
  /\ subPc = "init"
  /\ backoffMs = backoffFloor
  /\ shuttingDown = FALSE
  /\ subscriptionIds = {}
  /\ handlers = <<>>
  /\ exitSignal = "none"
  /\ removed = {}
  /\ streak = 0
  /\ waitMs = 0
  /\ attempts = 0

\* the log-event handler before any event
LogIdle ==
  /\ processedTxs = <<>>
  /\ lastSlots = NoSlots
  /\ slotFile = NoSlots
  /\ logTasks = {}
  /\ handledMax = NoSlots
  /\ bootSlots = NoSlots
  /\ events = 0
  /\ delivered = 0
  /\ admitted = {}
  /\ dropped = {}

\* a transaction with nothing in it
NoTx ==
  [meta |-> FALSE, hasStatic |-> FALSE, staticAccountKeys |-> <<>>,
   hasKeys |-> FALSE, accountKeys |-> <<>>, instructions |-> <<>>]

\* the parser before it is called
ParserIdle ==
  /\ tx = NoTx
  /\ cexAddress = ""
  /\ results = <<>>
  /\ parserPc = "idle"

\* processBlock before it is called
RunIdle ==
  /\ blockData = <<>>
  /\ configs = <<>>
  /\ alerts = <<>>
  /\ visited = 0
  /\ runPc = "idle"

\* block mode before startBlockMonitorListener
BlockIdle ==
  /\ phase = "boot"
  /\ file = NoFile
  /\ lastSlot = 0
  /\ inFlightFetches = {}
  /\ processedSlots = {}
  /\ processQueue = <<>>
  /\ processWorkers = 0
  /\ fetching = Zero
  /\ retryTimers = Zero
  /\ procActive = Zero
  /\ requeueTimers = Zero
  /\ advTasks = {}
  /\ callStart = NoCall
  /\ fetchCalls = Zero
  /\ okCount = Zero
  /\ skipCount = Zero
  /\ doneCount = Zero
  /\ failCount = Zero
  /\ errCount = Zero
  /\ writeFailCount = 0

Init ==
  /\ phase = "boot"
  /\ file \in {NoFile} \cup (0..MaxBootFile)
  /\ lastSlot = 0
  /\ inFlightFetches = {}
  /\ processedSlots = {}
  /\ processQueue = <<>>
  /\ processWorkers = 0
  /\ fetching = Zero
  /\ retryTimers = Zero
  /\ procActive = Zero
  /\ requeueTimers = Zero
  /\ advTasks = {}
  /\ callStart = NoCall
  /\ fetchCalls = Zero
  /\ okCount = Zero
  /\ skipCount = Zero
  /\ doneCount = Zero
  /\ failCount = Zero
  /\ errCount = Zero
  /\ writeFailCount = 0
  /\ SubscriptionIdle
  /\ LogIdle
  /\ ParserIdle
  /\ RunIdle

\* ---------------------------------------------------------------- actions

\* startBlockMonitorListener, lines 60-93: loadLastSlot is read into lastSlots,
\* lastSlot is set from getSlot (tip), and stays 0 when getSlot throws
Startup(tip) ==
  /\ phase = "boot"
  /\ phase' = "running"
  /\ lastSlot' = tip
  /\ UNCHANGED <<file, inFlightFetches, processedSlots, processQueue,
                 processWorkers, fetching, retryTimers, procActive,
                 requeueTimers, advTasks, callStart, hist>>
  /\ UNCHANGED outsideBlock

\* the slot-update handler (line 217) calls doFetch(s); doFetch up to await getBlock
Observe(s) ==
  /\ Running
  /\ Observed < MaxObserve
  /\ ShouldFetch(s, lastSlot, inFlightFetches, processedSlots)
  /\ inFlightFetches' = inFlightFetches \cup {s}
  /\ fetching' = [fetching EXCEPT ![s] = @ + 1]
  /\ fetchCalls' = [fetchCalls EXCEPT ![s] = @ + 1]
  /\ UNCHANGED <<phase, file, lastSlot, processedSlots, processQueue,
                 processWorkers, retryTimers, procActive, requeueTimers,
                 advTasks, callStart, okCount, skipCount, doneCount, failCount,
                 errCount, writeFailCount>>
  /\ UNCHANGED outsideBlock

\* doFetch, lines 102-107 (how = "try": getBlock returned no block) and lines
\* 112-119 (how = "catch": getBlock threw with a 'skipped' / 'missing in
\* long-term storage' message). The slot is marked and attemptAdvance runs; the
\* finally (line 128) runs once attemptAdvance returned
FetchSkipped(s, how) ==
  /\ Running
  /\ fetching[s] > 0
  /\ fetching' = [fetching EXCEPT ![s] = @ - 1]
  /\ skipCount' = [skipCount EXCEPT ![s] = @ + 1]
  /\ LET turn == AdvanceTurn(lastSlot, processedSlots \cup {s}) IN
       /\ lastSlot' = turn.lastSlot
       /\ processedSlots' = turn.processed
       /\ IF turn.saving
          THEN /\ advTasks' = advTasks \cup
                    {[owner |-> how, slot |-> s, val |-> turn.lastSlot]}
               /\ inFlightFetches' = inFlightFetches
          ELSE /\ advTasks' = advTasks
               /\ inFlightFetches' = inFlightFetches \ {s}
  /\ UNCHANGED <<phase, file, processQueue, processWorkers, retryTimers,
                 procActive, requeueTimers, callStart, fetchCalls, okCount,
                 doneCount, failCount, errCount,
                 writeFailCount>>
  /\ UNCHANGED outsideBlock

\* doFetch, lines 108-110 and 128: getBlock returned a block
FetchSuccess(s) ==
  /\ Running
  /\ fetching[s] > 0
  /\ fetching' = [fetching EXCEPT ![s] = @ - 1]
  /\ okCount' = [okCount EXCEPT ![s] = @ + 1]
  /\ LET r == tryStartProcessors(processWorkers, Append(processQueue, s), procActive) IN
       /\ processQueue' = r.queue
       /\ processWorkers' = r.workers
       /\ procActive' = r.active
  /\ inFlightFetches' = inFlightFetches \ {s}
  /\ UNCHANGED <<phase, file, lastSlot, processedSlots, retryTimers,
                 requeueTimers, advTasks, callStart, fetchCalls, skipCount,
                 doneCount, failCount, errCount,
                 writeFailCount>>
  /\ UNCHANGED outsideBlock

\* doFetch, lines 120-128: getBlock threw any other error
FetchTransient(s) ==
  /\ Running
  /\ fetching[s] > 0
  /\ Faults < MaxFaults
  /\ fetching' = [fetching EXCEPT ![s] = @ - 1]
  /\ failCount' = [failCount EXCEPT ![s] = @ + 1]
  /\ retryTimers' = [retryTimers EXCEPT ![s] = @ + 1]
  /\ inFlightFetches' = inFlightFetches \ {s}
  /\ UNCHANGED <<phase, file, lastSlot, processedSlots, processQueue,
                 processWorkers, procActive, requeueTimers, advTasks, callStart,
                 fetchCalls, okCount, skipCount, doneCount, errCount,
                 writeFailCount>>
  /\ UNCHANGED outsideBlock

\* a timer callback that clears the in-flight mark and does not call doFetch
RetryTimerOnlyClears(s) ==
  /\ Running
  /\ retryTimers[s] > 0
  /\ retryTimers' = [retryTimers EXCEPT ![s] = @ - 1]
  /\ inFlightFetches' = inFlightFetches \ {s}
  /\ UNCHANGED <<phase, file, lastSlot, processedSlots, processQueue,
                 processWorkers, fetching, procActive, requeueTimers, advTasks,
                 callStart, hist>>
  /\ UNCHANGED outsideBlock

\* the timer callback of lines 123-126: delete, then doFetch(s) up to await getBlock
RetryTimer(s) ==
  /\ Running
  /\ retryTimers[s] > 0
  /\ retryTimers' = [retryTimers EXCEPT ![s] = @ - 1]
  /\ LET inf == inFlightFetches \ {s} IN
       IF ShouldFetch(s, lastSlot, inf, processedSlots)
       THEN /\ inFlightFetches' = inf \cup {s}
            /\ fetching' = [fetching EXCEPT ![s] = @ + 1]
            /\ fetchCalls' = [fetchCalls EXCEPT ![s] = @ + 1]
       ELSE /\ inFlightFetches' = inf
            /\ UNCHANGED <<fetching, fetchCalls>>
  /\ UNCHANGED <<phase, file, lastSlot, processedSlots, processQueue,
                 processWorkers, procActive, requeueTimers, advTasks, callStart,
                 okCount, skipCount, doneCount, failCount, errCount,
                 writeFailCount>>
  /\ UNCHANGED outsideBlock

\* processBlock, lines 170-172 and 181: the transaction loop ran to its end
ProcessDone(s) ==
  /\ Running
  /\ procActive[s] > 0
  /\ procActive' = [procActive EXCEPT ![s] = @ - 1]
  /\ doneCount' = [doneCount EXCEPT ![s] = @ + 1]
  /\ LET turn == AdvanceTurn(lastSlot, processedSlots \cup {s}) IN
       /\ lastSlot' = turn.lastSlot
       /\ processedSlots' = turn.processed
       /\ IF turn.saving
          THEN /\ advTasks' = advTasks \cup
                    {[owner |-> "proc", slot |-> s, val |-> turn.lastSlot]}
               /\ processWorkers' = processWorkers
          ELSE /\ advTasks' = advTasks
               /\ processWorkers' = processWorkers - 1
  /\ UNCHANGED <<phase, file, inFlightFetches, processQueue, fetching,
                 retryTimers, requeueTimers, callStart, fetchCalls, okCount,
                 skipCount, failCount, errCount, writeFailCount>>
  /\ UNCHANGED outsideBlock

\* processBlock, lines 173-182: the transaction loop threw
ProcessError(s) ==
  /\ Running
  /\ procActive[s] > 0
  /\ Faults < MaxFaults
  /\ procActive' = [procActive EXCEPT ![s] = @ - 1]
  /\ errCount' = [errCount EXCEPT ![s] = @ + 1]
  /\ requeueTimers' = [requeueTimers EXCEPT ![s] = @ + 1]
  /\ processWorkers' = processWorkers - 1
  /\ UNCHANGED <<phase, file, lastSlot, inFlightFetches, processedSlots,
                 processQueue, fetching, retryTimers, advTasks, callStart,
                 fetchCalls, okCount, skipCount, doneCount, failCount,
                 writeFailCount>>
  /\ UNCHANGED outsideBlock

\* the timer callback of lines 176-179
RequeueTimer(s) ==
  /\ Running
  /\ requeueTimers[s] > 0
  /\ requeueTimers' = [requeueTimers EXCEPT ![s] = @ - 1]
  /\ LET r == tryStartProcessors(processWorkers, Append(processQueue, s), procActive) IN
       /\ processQueue' = r.queue
       /\ processWorkers' = r.workers
       /\ procActive' = r.active
  /\ UNCHANGED <<phase, file, lastSlot, inFlightFetches, processedSlots,
                 fetching, retryTimers, advTasks, callStart, hist>>
  /\ UNCHANGED outsideBlock

\* saveLastSlot, lines 30-33, completes for one suspended attemptAdvance: the
\* file takes the value that call passed; the loop of attemptAdvance takes its
\* next turn; at the break, lines 199-202 run and then the caller's finally
SaveLands(t) ==
  /\ Running
  /\ t \in advTasks
  /\ file' = t.val
  /\ LET turn == AdvanceTurn(lastSlot, processedSlots)
         r == tryStartProcessors(processWorkers, processQueue, procActive) IN
       /\ lastSlot' = turn.lastSlot
       /\ processedSlots' = turn.processed
       /\ IF turn.saving
          THEN /\ advTasks' = (advTasks \ {t}) \cup {[t EXCEPT !.val = turn.lastSlot]}
               /\ UNCHANGED <<processQueue, processWorkers, procActive,
                              inFlightFetches, callStart>>
          ELSE /\ advTasks' = advTasks \ {t}
               /\ processQueue' = r.queue
               /\ procActive' = r.active
               /\ processWorkers' = IF t.owner = "proc" THEN r.workers - 1 ELSE r.workers
               /\ inFlightFetches' = IF t.owner \in {"try", "catch"}
                                     THEN inFlightFetches \ {t.slot}
                                     ELSE inFlightFetches
               /\ callStart' = IF t.owner = "call"
                               THEN [callStart EXCEPT !.state = "done"]
                               ELSE callStart
  /\ UNCHANGED <<phase, fetching, retryTimers, requeueTimers, hist>>
  /\ UNCHANGED outsideBlock

\* saveLastSlot, line 32, throws for one suspended attemptAdvance (ensureDataDir
\* swallows its own errors): attemptAdvance rejects into its caller. In
\* processBlock the catch of lines 173-179 re-enqueues; in the try block of
\* doFetch the catch of lines 111-126 takes the error for a transient one; in
\* the catch block of doFetch it leaves doFetch; each runs its finally
SaveFails(t) ==
  /\ Running
  /\ t \in advTasks
  /\ Faults < MaxFaults
  /\ writeFailCount' = writeFailCount + 1
  /\ advTasks' = advTasks \ {t}
  /\ requeueTimers' = IF t.owner = "proc"
                      THEN [requeueTimers EXCEPT ![t.slot] = @ + 1]
                      ELSE requeueTimers
  /\ processWorkers' = IF t.owner = "proc" THEN processWorkers - 1 ELSE processWorkers
  /\ retryTimers' = IF t.owner = "try"
                    THEN [retryTimers EXCEPT ![t.slot] = @ + 1]
                    ELSE retryTimers
  /\ inFlightFetches' = IF t.owner \in {"try", "catch"}
                        THEN inFlightFetches \ {t.slot}
                        ELSE inFlightFetches
  /\ callStart' = IF t.owner = "call"
                  THEN [callStart EXCEPT !.state = "failed"]
                  ELSE callStart
  /\ UNCHANGED <<phase, file, lastSlot, processedSlots, processQueue, fetching,
                 procActive, fetchCalls, okCount, skipCount, doneCount,
                 failCount, errCount>>
  /\ UNCHANGED outsideBlock

Next ==
  \/ \E tip \in 0..MaxTip : Startup(tip)
  \/ \E s \in Slots : Observe(s)
  \/ \E s \in Slots, how \in {"try", "catch"} : FetchSkipped(s, how)
  \/ \E s \in Slots : FetchSuccess(s)
  \/ \E s \in Slots : FetchTransient(s)
  \/ \E s \in Slots : RetryTimer(s)
  \/ \E s \in Slots : ProcessDone(s)
  \/ \E s \in Slots : ProcessError(s)
  \/ \E s \in Slots : RequeueTimer(s)
  \/ \E t \in advTasks : SaveLands(t)
  \/ \E t \in advTasks : SaveFails(t)

Spec == Init /\ [][Next]_vars

\* the event loop runs every timer callback that is due (setTimeout, lines 123
\* and 176); nothing obliges the provider to answer or the feed to report
FairSpec ==
  /\ Spec
  /\ \A s \in Slots : WF_vars(RetryTimer(s)) /\ WF_vars(RequeueTimer(s))

\* in addition the provider answers every getBlock call, every started
\* processBlock reaches the end of its loop unless it throws, and every write of
\* the checkpoint file ends; the feed remains free to fall silent
FairRunSpec ==
  /\ FairSpec
  /\ \A s \in Slots : WF_vars(FetchSuccess(s)) /\ WF_vars(ProcessDone(s))
  /\ WF_vars(\E t \in advTasks : SaveLands(t))

\* ------------------------------------------------ attemptAdvance in isolation

InitAdvance ==
  /\ phase = "running"
  /\ file = NoFile
  /\ lastSlot \in 0..AdvMaxCheckpoint
  /\ processedSlots \in SUBSET (1..AdvMaxSlot)
  /\ inFlightFetches = {}
  /\ processQueue = <<>>
  /\ processWorkers = 0
  /\ fetching = Zero
  /\ retryTimers = Zero
  /\ procActive = Zero
  /\ requeueTimers = Zero
  /\ advTasks = {}
  /\ callStart = NoCall
  /\ fetchCalls = Zero
  /\ okCount = Zero
  /\ skipCount = Zero
  /\ doneCount = Zero
  /\ failCount = Zero
  /\ errCount = Zero
  /\ writeFailCount = 0
  /\ SubscriptionIdle
  /\ LogIdle
  /\ ParserIdle
  /\ RunIdle

\* attemptAdvance, lines 185-198, called on its own, up to its first await
AdvanceCall ==
  /\ callStart.state = "none"
  /\ LET turn == AdvanceTurn(lastSlot, processedSlots) IN
       /\ lastSlot' = turn.lastSlot
       /\ processedSlots' = turn.processed
       /\ callStart' = [state |-> IF turn.saving THEN "running" ELSE "done",
                        c |-> lastSlot, P |-> processedSlots]
       /\ advTasks' = IF turn.saving
                      THEN {[owner |-> "call", slot |-> 0, val |-> turn.lastSlot]}
                      ELSE {}
  /\ UNCHANGED <<phase, file, inFlightFetches, processQueue, processWorkers,
                 fetching, retryTimers, procActive, requeueTimers, hist>>
  /\ UNCHANGED outsideBlock

NextAdvance ==
  \/ AdvanceCall
  \/ \E t \in advTasks : SaveLands(t)
  \/ \E t \in advTasks : SaveFails(t)

SpecAdvance == InitAdvance /\ [][NextAdvance]_vars

\* ------------------------------------------ subscription loop and signals

\* the smaller of two numbers (Math.min)
Min(a, b) == IF a < b THEN a ELSE b

\* a doubling without the ceiling
NextBackoffUncapped(b) == b * 2

\* blockMonitorListener.ts line 228, ranges.ts line 248
NextBackoff(b) == Min(b * 2, backoffCeiling)

\* the feeds a listener subscribes to: the one slot-update feed (onSlotUpdate),
\* or one log feed per watched address (onLogs in setupSubscriptions)
Feeds(m) == IF m = "block" THEN {1} ELSE Labels

\* the listeners of the process before the listener starts: in log mode the
\* entry point has registered its own at module level (part_000 lines 28-35,
\* before main() at line 37); startBlockMonitorListener is started by no file
\* of the repository, so nothing is registered ahead of it
EntryHandlers(m) == IF m = "log" THEN <<"entry">> ELSE <<>>

\* a loop that takes no further turn after a failed attempt
ensureSubscriptionGivesUp(b, ok, k, n) ==
  [pc |-> IF ok # {} THEN "active" ELSE "stopped", backoffMs |-> b, ids |-> ok,
   waitMs |-> 0, streak |-> IF ok # {} THEN 0 ELSE k + 1, attempts |-> n + 1]

\* one turn of the loop body (blockMonitorListener.ts 213-227, ranges.ts
\* 224-247) with backoff b, after k failed attempts in a row and n attempts:
\* ok is the set of feeds the provider accepts. The turn succeeds when a
\* subscription was established (in log mode: at least one, line 235)
ensureSubscription(b, ok, k, n) ==
  IF ok # {}
  THEN [pc |-> "active", backoffMs |-> backoffFloor, ids |-> ok, waitMs |-> 0,
        streak |-> 0, attempts |-> n + 1]
  ELSE [pc |-> "waiting", backoffMs |-> b, ids |-> {}, waitMs |-> b,
        streak |-> k + 1, attempts |-> n + 1]

\* listeners run in registration order, and the first one that calls
\* process.exit ends the process: every listener of the program does
FirstHandler(hs) == Head(hs)

InitSubscription ==
  /\ BlockIdle
  /\ LogIdle
  /\ ParserIdle
  /\ RunIdle
  /\ mode \in {"block", "log"}
  /\ subPc = "init"
  /\ backoffMs = backoffFloor
  /\ shuttingDown = FALSE
  /\ subscriptionIds = {}
  /\ handlers = EntryHandlers(mode)
  /\ exitSignal = "none"
  /\ removed = {}
  /\ streak = 0
  /\ waitMs = 0
  /\ attempts = 0

Exited == exitSignal # "none"

\* the listener reaches its subscription loop (blockMonitorListener.ts 233,
\* ranges.ts 254): the first turn of the loop runs, and the listener registers
\* its signal listeners (blockMonitorListener.ts 236-252, ranges.ts 257-277)
\* before anything else can run
StartSubscription(ok) ==
  /\ ~Exited
  /\ subPc = "init"
  /\ ok \in SUBSET Feeds(mode)
  /\ LET r == ensureSubscription(backoffMs, ok, streak, attempts) IN
       /\ subPc' = r.pc
       /\ backoffMs' = r.backoffMs
       /\ subscriptionIds' = r.ids
       /\ waitMs' = r.waitMs
       /\ streak' = r.streak
       /\ attempts' = r.attempts
  /\ handlers' = Append(handlers, "monitor")
  /\ UNCHANGED <<mode, shuttingDown, exitSignal, removed>>
  /\ UNCHANGED outsideSubscription

\* the backoff wait ends (blockMonitorListener.ts 227-229, ranges.ts 247-249):
\* backoffMs doubles up to the ceiling, the loop tests shuttingDown and takes
\* its next turn; in log mode the turn first removes the subscriptions still
\* listed (ranges.ts 226-231)
BackoffEnds(ok) ==
  /\ ~Exited
  /\ subPc = "waiting"
  /\ ok \in SUBSET Feeds(mode)
  /\ ok = {} => streak < MaxFailures
  /\ IF shuttingDown
     THEN /\ subPc' = "stopped"
          /\ backoffMs' = NextBackoff(backoffMs)
          /\ waitMs' = 0
          /\ UNCHANGED <<subscriptionIds, removed, streak, attempts>>
     ELSE LET r == ensureSubscription(NextBackoff(backoffMs), ok, streak, attempts) IN
            /\ subPc' = r.pc
            /\ backoffMs' = r.backoffMs
            /\ subscriptionIds' = r.ids
            /\ waitMs' = r.waitMs
            /\ streak' = r.streak
            /\ attempts' = r.attempts
            /\ removed' = IF mode = "log" THEN removed \cup subscriptionIds ELSE removed
  /\ UNCHANGED <<mode, shuttingDown, handlers, exitSignal>>
  /\ UNCHANGED outsideSubscription

\* SIGINT or SIGTERM arrives. With no listener registered the process ends by
\* the signal's default action. Otherwise the first listener runs: the entry
\* point's (part_000 28-35) calls process.exit(0); the listener's
\* (blockMonitorListener.ts 236-252, ranges.ts 257-277) makes the unsubscribe
\* calls, sets shuttingDown and calls process.exit(0). process.exit does not
\* return, so no later listener runs
Signal(sig) ==
  /\ ~Exited
  /\ exitSignal' = sig
  /\ IF handlers # <<>> /\ FirstHandler(handlers) = "monitor"
     THEN /\ removed' = removed \cup subscriptionIds
          /\ shuttingDown' = TRUE
     ELSE UNCHANGED <<removed, shuttingDown>>
  /\ UNCHANGED <<mode, subPc, backoffMs, subscriptionIds, handlers, streak,
                 waitMs, attempts>>
  /\ UNCHANGED outsideSubscription

NextSubscription ==
  \/ \E ok \in SUBSET Labels : StartSubscription(ok)
  \/ \E ok \in SUBSET Labels : BackoffEnds(ok)
  \/ \E sig \in {"SIGINT", "SIGTERM"} : Signal(sig)

SpecSubscription == InitSubscription /\ [][NextSubscription]_vars

\* the event loop runs the timer callback of the backoff wait when it is due
FairSpecSubscription ==
  /\ SpecSubscription
  /\ WF_vars(\E ok \in SUBSET Labels : BackoffEnds(ok))

\* ------------------------------------------------- log-event handler

\* processedTxs.has(signature), line 117
Has(seen, sig) == \E i \in 1..Len(seen) : seen[i] = sig

\* an eviction that deletes the newest entries instead of the oldest
AddSeenEvictsNewest(seen, sig) ==
  LET arr == Append(seen, sig) IN
    IF Len(arr) > processedTxsMaxSize
    THEN SubSeq(arr, 1, Len(arr) - processedTxsMaxSize \div 2)
    ELSE arr

\* lines 120-126: add, then delete arr.slice(0, processedTxsMaxSize / 2) when
\* the size exceeds processedTxsMaxSize (slice truncates a fractional end)
AddSeen(seen, sig) ==
  LET arr == Append(seen, sig) IN
    IF Len(arr) > processedTxsMaxSize
    THEN SubSeq(arr, processedTxsMaxSize \div 2 + 1, Len(arr))
    ELSE arr

\* lines 199-200: tx.slot is set, and the label has no entry (or entry 0) or
\* a smaller one
NeedsSave(ls, l, sl) == sl # 0 /\ (ls[l] = 0 \/ sl > ls[l])

Larger(a, b) == IF a > b THEN a ELSE b

\* the handler of the n-th event, in its fetch loop (lines 135-156: the awaits
\* of getParsedTransaction and of the 500 ms waits between its three tries)
NewTask(l, n) ==
  [label |-> l, id |-> n, stage |-> "fetch", snap |-> NoSlots]

\* processedTxs after k events with the signatures 1..k, none evicted
Seeded(k) == [i \in 1..k |-> i]

\* the listener is running: startTransactionMonitorListener has loaded
\* lastSlots from the file (line 82) and its subscriptions are established; no
\* handler is suspended; processedTxs is empty (line 97), or earlier events
\* have filled it to processedTxsMaxSize
InitLog ==
  /\ BlockIdle
  /\ ParserIdle
  /\ RunIdle
  /\ mode = "log"
  /\ subPc = "active"
  /\ backoffMs = backoffFloor
  /\ shuttingDown = FALSE
  /\ subscriptionIds = Labels
  /\ handlers = <<"entry", "monitor">>
  /\ exitSignal = "none"
  /\ removed = {}
  /\ streak = 0
  /\ waitMs = 0
  /\ attempts = 1
  /\ processedTxs \in {Seeded(0), Seeded(processedTxsMaxSize)}
  /\ bootSlots \in {[l \in Labels |-> b] : b \in 0..MaxBootFile}
  /\ lastSlots = bootSlots
  /\ slotFile = bootSlots
  /\ logTasks = {}
  /\ handledMax = NoSlots
  /\ events = 0
  /\ delivered = Len(processedTxs)
  /\ admitted = {}
  /\ dropped = {}

\* the onLogs callback of label l is called with signature sig, one delivered
\* before or the next new one, lines 113-137: a signature in processedTxs is
\* dropped; any other is added (with the eviction) and the handler suspends at
\* getParsedTransaction
LogEvent(l, sig) ==
  /\ events < MaxEvents
  /\ sig <= delivered + 1
  /\ delivered' = Larger(delivered, sig)
  /\ events' = events + 1
  /\ IF Has(processedTxs, sig)
     THEN /\ dropped' = dropped \cup {<<l, sig>>}
          /\ UNCHANGED <<processedTxs, logTasks, admitted>>
     ELSE /\ Cardinality(logTasks) < MaxInFlight
          /\ processedTxs' = AddSeen(processedTxs, sig)
          /\ logTasks' = logTasks \cup {NewTask(l, events + 1)}
          /\ admitted' = admitted \cup {<<l, sig>>}
          /\ UNCHANGED dropped
  /\ UNCHANGED <<lastSlots, slotFile, handledMax, bootSlots>>
  /\ UNCHANGED outsideLog

\* getParsedTransaction returned the transaction, with slot sl, in one of its
\* three tries (line 141); the
\* parser, the range matcher and the alerts follow (lines 163-196: an await of
\* sendAlert postpones the rest as the await of getParsedTransaction does), then
\* lines 199-202 up to await saveLastSlot
TxFetched(t, sl) ==
  /\ t \in logTasks
  /\ t.stage = "fetch"
  /\ handledMax' = [handledMax EXCEPT ![t.label] = Larger(@, sl)]
  /\ IF NeedsSave(lastSlots, t.label, sl)
     THEN /\ lastSlots' = [lastSlots EXCEPT ![t.label] = sl]
          /\ logTasks' = (logTasks \ {t}) \cup {[t EXCEPT !.stage = "mkdir"]}
     ELSE /\ lastSlots' = lastSlots
          /\ logTasks' = logTasks \ {t}
  /\ UNCHANGED <<processedTxs, slotFile, bootSlots, events, delivered,
                 admitted, dropped>>
  /\ UNCHANGED outsideLog

\* the handler ends before line 199: the third try of getParsedTransaction
\* also gave no transaction (how = "fetch", lines 158-161), or the parser, the
\* message building or sendAlert threw (how = "catch", lines 163-196 and 205)
HandlerGivesUp(t, how) ==
  /\ t \in logTasks
  /\ t.stage = "fetch"
  /\ logTasks' = logTasks \ {t}
  /\ UNCHANGED <<processedTxs, lastSlots, slotFile, handledMax, bootSlots,
                 events, delivered, admitted, dropped>>
  /\ UNCHANGED outsideLog

\* saveLastSlot, line 58: ensureDataDir has returned; line 59 serialises the
\* map lastSlots as it is now and hands it to fs.writeFile
MkdirDone(t) ==
  /\ t \in logTasks
  /\ t.stage = "mkdir"
  /\ logTasks' = (logTasks \ {t}) \cup {[t EXCEPT !.stage = "write", !.snap = lastSlots]}
  /\ UNCHANGED <<processedTxs, lastSlots, slotFile, handledMax, bootSlots,
                 events, delivered, admitted, dropped>>
  /\ UNCHANGED outsideLog

\* saveLastSlot, line 59: fs.writeFile completes, the file holds what this call
\* serialised; the handler ends
WriteLands(t) ==
  /\ t \in logTasks
  /\ t.stage = "write"
  /\ slotFile' = t.snap
  /\ logTasks' = logTasks \ {t}
  /\ UNCHANGED <<processedTxs, lastSlots, handledMax, bootSlots, events,
                 delivered, admitted, dropped>>
  /\ UNCHANGED outsideLog

NextLog ==
  \/ \E l \in Labels, sig \in Sigs : LogEvent(l, sig)
  \/ \E t \in logTasks, sl \in TxSlots : TxFetched(t, sl)
  \/ \E t \in logTasks, how \in {"fetch", "catch"} : HandlerGivesUp(t, how)
  \/ \E t \in logTasks : MkdirDone(t)
  \/ \E t \in logTasks : WriteLands(t)

SpecLog == InitLog /\ [][NextLog]_vars

\* ------------------------------------------------- instruction parser

\* JavaScript's undefined (or null) where the source reads a property
undefined == "<undefined>"

\* an entry of the account table: a string, a PublicKey (it has toBase58),
\* or an object that is neither
Key(k, a) == [k |-> k, a |-> a]

\* accountKeys[idx]; an index outside the table reads undefined
KeyAt(keys, idx) ==
  IF idx \in 0..(Len(keys) - 1) THEN keys[idx + 1]
  ELSE Key("undefined", undefined)

\* typeof x === 'string' ? x : x?.toBase58?.()
AddrOf(e) == IF e.k \in {"string", "pubkey"} THEN e.a ELSE undefined

\* typeof x === 'string' ? x : x?.toBase58?.() || String(x)
ReceiverOf(e) ==
  CASE e.k = "string" -> e.a
    [] e.k = "pubkey" -> e.a
    [] e.k = "other"  -> "[object Object]"
    [] OTHER          -> "undefined"

\* message.staticAccountKeys || message.accountKeys || []
AccountKeys(t) ==
  IF t.hasStatic THEN t.staticAccountKeys
  ELSE IF t.hasKeys THEN t.accountKeys
  ELSE <<>>

\* the Base58 alphabet of bs58
ALPHABET ==
  << "1", "2", "3", "4", "5", "6", "7", "8", "9",
     "A", "B", "C", "D", "E", "F", "G", "H", "J", "K", "L", "M", "N", "P",
     "Q", "R", "S", "T", "U", "V", "W", "X", "Y", "Z",
     "a", "b", "c", "d", "e", "f", "g", "h", "i", "j", "k", "m", "n", "o",
     "p", "q", "r", "s", "t", "u", "v", "w", "x", "y", "z" >>

\* the digit a character stands for, NoIndex for a character outside the alphabet
DigitOf(c) ==
  IF \E i \in 1..Len(ALPHABET) : ALPHABET[i] = c
  THEN (CHOOSE i \in 1..Len(ALPHABET) : ALPHABET[i] = c) - 1
  ELSE NoIndex

RECURSIVE Reverse(_)
Reverse(s) == IF s = <<>> THEN <<>> ELSE Reverse(Tail(s)) \o <<Head(s)>>

RECURSIVE LeadingCount(_, _)
LeadingCount(s, z) ==
  IF s = <<>> \/ Head(s) # z THEN 0 ELSE 1 + LeadingCount(Tail(s), z)

\* n * m + c on a little-endian digit string n of the given base
RECURSIVE MulAdd(_, _, _, _)
MulAdd(n, m, c, base) ==
  IF n = <<>>
  THEN IF c = 0 THEN <<>>
       ELSE <<c % base>> \o MulAdd(<<>>, m, c \div base, base)
  ELSE LET v == Head(n) * m + c
       IN  <<v % base>> \o MulAdd(Tail(n), m, v \div base, base)

\* the big-endian digit string src of base `from`, as a little-endian digit
\* string of base `to`
RECURSIVE ToBase(_, _, _, _)
ToBase(src, from, to, acc) ==
  IF src = <<>> THEN acc
  ELSE ToBase(Tail(src), from, to, MulAdd(acc, from, Head(src), to))

\* bs58.decode: every leading "1" is one zero byte, the rest is a base-58
\* number written out in bytes; a character outside the alphabet throws
Decode58(chars) ==
  LET digits == [i \in 1..Len(chars) |-> DigitOf(chars[i])]
      z      == LeadingCount(digits, 0)
      rest   == SubSeq(digits, z + 1, Len(digits))
  IN  IF \E i \in 1..Len(digits) : digits[i] = NoIndex
      THEN [ok |-> FALSE, bytes |-> <<>>]
      ELSE [ok |-> TRUE,
            bytes |-> [i \in 1..z |-> 0] \o Reverse(ToBase(rest, 58, 256, <<>>))]

\* the Base58 text the RPC node sends for an instruction's payload bytes
Encode58(bytes) ==
  LET z      == LeadingCount(bytes, 0)
      rest   == SubSeq(bytes, z + 1, Len(bytes))
      digits == Reverse(ToBase(rest, 256, 58, <<>>))
  IN  [i \in 1..z |-> ALPHABET[1]] \o
      [i \in 1..Len(digits) |-> ALPHABET[digits[i] + 1]]

\* n as w little-endian bytes
RECURSIVE LE(_, _)
LE(n, w) == IF w = 0 THEN <<>> ELSE <<n % 256>> \o LE(n \div 256, w - 1)

\* Number(buf.readBigUInt64LE())
RECURSIVE readBigUInt64LE(_)
readBigUInt64LE(b) ==
  IF b = <<>> THEN 0 ELSE Head(b) + 256 * readBigUInt64LE(Tail(b))

RECURSIVE GCD(_, _)
GCD(a, b) == IF b = 0 THEN a ELSE GCD(b, a % b)

\* the number a / b, as a fraction in lowest terms
Ratio(a, b) == LET g == GCD(a, b) IN [num |-> a \div g, den |-> b \div g]

\* lamports / 1e9
Sol(lamports) == Ratio(lamports, LAMPORTS_PER_SOL)

Outflow(amount, receiver) == [amount |-> amount, receiver |-> receiver]

\* the instruction data as a Buffer; ok is FALSE where the code leaves the
\* instruction (a data field of another type, or bs58.decode throwing)
InstrData(instr) ==
  CASE instr.dataKind = "string" -> Decode58(instr.data)
    [] instr.dataKind = "bytes"  -> [ok |-> TRUE, bytes |-> instr.bytes]
    [] OTHER                     -> [ok |-> FALSE, bytes |-> <<>>]

\* Case 1 of the loop body: an instruction of getParsedTransaction
ParseStructured(instr, cex) ==
  IF /\ instr.type = "transfer"
     /\ instr.hasInfo
     /\ instr.source = cex
     /\ instr.lamports > 0
  THEN <<Outflow(Sol(instr.lamports), instr.destination)>>
  ELSE <<>>

\* Case 2 of the loop body: an instruction of getTransaction or getBlock
ParseRaw(instr, keys, cex) ==
  LET d        == InstrData(instr)
      lamports == readBigUInt64LE(SubSeq(d.bytes, 5, 12))
  IN  IF instr.programIdIndex = NoIndex THEN <<>>
      ELSE IF AddrOf(KeyAt(keys, instr.programIdIndex)) # SYSTEM_PROGRAM THEN <<>>
      ELSE IF ~d.ok THEN <<>>
      ELSE IF Len(d.bytes) < 12 THEN <<>>
      ELSE IF SubSeq(d.bytes, 1, 4) # <<2, 0, 0, 0>> THEN <<>>
      ELSE IF lamports <= 0 THEN <<>>
      ELSE IF Len(instr.accounts) < 2 THEN <<>>
      ELSE IF AddrOf(KeyAt(keys, instr.accounts[1])) # cex THEN <<>>
      ELSE LET receiver == ReceiverOf(KeyAt(keys, instr.accounts[2]))
           IN  IF receiver # "" THEN <<Outflow(Sol(lamports), receiver)>>
               ELSE <<>>

\* one pass of the loop body
ParseInstruction(instr, keys, cex) ==
  IF instr.kind = "parsed" /\ instr.program = "system"
  THEN ParseStructured(instr, cex)
  ELSE ParseRaw(instr, keys, cex)

\* the loop over the instructions; reading a property of a null entry
\* throws before either try block is entered
RECURSIVE Scan(_, _, _, _)
Scan(instrs, keys, cex, acc) ==
  IF instrs = <<>> THEN [threw |-> FALSE, results |-> acc]
  ELSE IF Head(instrs).kind = "null" THEN [threw |-> TRUE, results |-> <<>>]
  ELSE Scan(Tail(instrs), keys, cex,
            acc \o ParseInstruction(Head(instrs), keys, cex))

parseBlockTransactions(t, cex) ==
  IF ~t.meta THEN [threw |-> FALSE, results |-> <<>>]
  ELSE Scan(t.instructions, AccountKeys(t), cex, <<>>)

\* ---- the transactions the parser is given

CEX == "CexHotWallet"
RECEIVER == "Receiver"

\* a transfer instruction's payload: u32 index 2, then the u64 amount
TransferPayload(lamports) == LE(2, 4) \o LE(lamports, 8)

Instr(kind, pidx, dk, payload, accts, program, type, hasInfo, src, dst, lamports) ==
  [kind |-> kind, programIdIndex |-> pidx, dataKind |-> dk,
   data |-> IF dk = "string" THEN Encode58(payload) ELSE <<>>,
   bytes |-> IF dk = "bytes" THEN payload ELSE <<>>,
   payload |-> payload, accounts |-> accts,
   program |-> program, type |-> type, hasInfo |-> hasInfo,
   source |-> src, destination |-> dst, lamports |-> lamports]

Raw(pidx, dk, payload, accts) ==
  Instr("raw", pidx, dk, payload, accts,
        undefined, undefined, FALSE, undefined, undefined, 0)

Parsed(program, type, hasInfo, src, dst, lamports) ==
  Instr("parsed", NoIndex, "other", <<>>, <<>>,
        program, type, hasInfo, src, dst, lamports)

NullInstr ==
  Instr("null", NoIndex, "other", <<>>, <<>>,
        undefined, undefined, FALSE, undefined, undefined, 0)

\* a string that is not Base58 ("0" and "O" are outside the alphabet)
NotBase58 ==
  [Raw(2, "string", <<>>, <<0, 1>>) EXCEPT !.data = <<"0", "O">>]

\* the account table: 0 the watched address, 1 a receiver, 2 the System
\* Program, 3 an empty string; 5 is an index outside the table
Table(k) ==
  << Key(k, CEX), Key(k, RECEIVER), Key(k, SYSTEM_PROGRAM), Key("string", "") >>

Payloads ==
  { TransferPayload(LAMPORTS_PER_SOL), TransferPayload(1), TransferPayload(0),
    SubSeq(TransferPayload(LAMPORTS_PER_SOL), 1, 11),
    TransferPayload(LAMPORTS_PER_SOL) \o <<9>>,
    LE(3, 4) \o LE(LAMPORTS_PER_SOL, 8),
    <<2, 0, 0, 1>> \o LE(LAMPORTS_PER_SOL, 8),
    LE(0, 4) \o LE(LAMPORTS_PER_SOL, 8) }

AccountLists ==
  { <<0, 1>>, <<0>>, <<>>, <<1, 0>>, <<0, 0>>, <<0, 1, 2>>,
    <<0, 5>>, <<5, 1>>, <<0, 3>>, <<NoIndex, 1>> }

\* raw instructions: a transfer of the watched address, and that transfer
\* with one field changed
RawInstrs ==
  {Raw(p, "string", TransferPayload(LAMPORTS_PER_SOL), <<0, 1>>) :
     p \in {2, 0, 5, NoIndex}}
  \cup {Raw(2, dk, pl, <<0, 1>>) : dk \in {"string", "bytes"}, pl \in Payloads}
  \cup {Raw(2, "other", <<>>, <<0, 1>>), NotBase58}
  \cup {Raw(2, "string", TransferPayload(LAMPORTS_PER_SOL), a) :
          a \in AccountLists}

\* structured instructions: a transfer of the watched address, and that
\* transfer with one field changed
ParsedInstrs ==
  { Parsed("system", "transfer", TRUE, CEX, RECEIVER, LAMPORTS_PER_SOL),
    Parsed("system", "transfer", TRUE, CEX, RECEIVER, 1),
    Parsed("system", "transfer", TRUE, CEX, RECEIVER, 0),
    Parsed("system", "transfer", TRUE, RECEIVER, CEX, LAMPORTS_PER_SOL),
    Parsed("system", "transfer", TRUE, undefined, RECEIVER, LAMPORTS_PER_SOL),
    Parsed("system", "transfer", TRUE, CEX, undefined, LAMPORTS_PER_SOL),
    Parsed("system", "transfer", FALSE, undefined, undefined, 0),
    Parsed("system", "createAccount", TRUE, CEX, RECEIVER, LAMPORTS_PER_SOL),
    Parsed("spl-token", "transfer", TRUE, CEX, RECEIVER, LAMPORTS_PER_SOL) }

Instrs == RawInstrs \cup ParsedInstrs \cup {NullInstr}

InstrLists == UNION {[1..n -> Instrs] : n \in 0..MaxInstr}

Tx(meta, hasStatic, hasKeys, instrs) ==
  [meta |-> meta,
   hasStatic |-> hasStatic,
   staticAccountKeys |-> IF hasStatic THEN Table("pubkey") ELSE <<>>,
   hasKeys |-> hasKeys,
   accountKeys |-> IF hasKeys THEN Table("string") ELSE <<>>,
   instructions |-> instrs]

InitParser ==
  /\ BlockIdle /\ SubscriptionIdle /\ LogIdle /\ RunIdle
  /\ tx \in {Tx(m, s, k, is) :
               m \in BOOLEAN, s \in BOOLEAN, k \in BOOLEAN, is \in InstrLists}
  /\ cexAddress = CEX
  /\ results = <<>>
  /\ parserPc = "called"

\* the call returns its results
ParseReturns ==
  /\ parserPc = "called"
  /\ ~parseBlockTransactions(tx, cexAddress).threw
  /\ results' = parseBlockTransactions(tx, cexAddress).results
  /\ parserPc' = "returned"
  /\ UNCHANGED <<tx, cexAddress>>
  /\ UNCHANGED outsideParser

\* the call ends in an exception
ParseThrows ==
  /\ parserPc = "called"
  /\ parseBlockTransactions(tx, cexAddress).threw
  /\ parserPc' = "threw"
  /\ UNCHANGED <<tx, cexAddress, results>>
  /\ UNCHANGED outsideParser

NextParser ==
  \/ ParseReturns
  \/ ParseThrows

SpecParser == InitParser /\ [][NextParser]_vars

\* ------------------------------------------- range matcher and processBlock

DIGITS == <<"0", "1", "2", "3", "4", "5", "6", "7", "8", "9">>

\* a value that is NaN
NaN == [num |-> 0, den |-> 0]

IsNaN(x) == x.den = 0

\* a <= b on fractions
Leq(a, b) == a.num * b.den <= b.num * a.den

\* String.prototype.trim
RECURSIVE TrimStart(_)
TrimStart(s) == IF s # <<>> /\ Head(s) = " " THEN TrimStart(Tail(s)) ELSE s

Trim(s) == Reverse(TrimStart(Reverse(TrimStart(s))))

\* String.prototype.split on a one-character separator
RECURSIVE Split(_, _)
Split(s, sep) ==
  IF \A i \in 1..Len(s) : s[i] # sep THEN <<s>>
  ELSE LET i == CHOOSE j \in 1..Len(s) :
                  s[j] = sep /\ \A h \in 1..(j - 1) : s[h] # sep
       IN  <<SubSeq(s, 1, i - 1)>> \o Split(SubSeq(s, i + 1, Len(s)), sep)

\* the number a string of decimal digits denotes
RECURSIVE DigitsValue(_, _)
DigitsValue(s, acc) ==
  IF s = <<>> THEN acc
  ELSE DigitsValue(Tail(s),
                   acc * 10 + (CHOOSE d \in 0..9 : DIGITS[d + 1] = Head(s)))

\* Number(text) for text made of decimal digits, "." and other characters:
\* the empty string is 0, a decimal literal is its value, anything else NaN
Number(text) ==
  LET t     == Trim(text)
      parts == Split(t, ".")
      IsDigits(p) == \A i \in 1..Len(p) : \E d \in 1..10 : DIGITS[d] = p[i]
  IN  IF t = <<>> THEN Ratio(0, 1)
      ELSE IF /\ Len(parts) <= 2
              /\ \A n \in 1..Len(parts) : IsDigits(parts[n])
              /\ \E n \in 1..Len(parts) : parts[n] # <<>>
      THEN IF Len(parts) = 1 THEN Ratio(DigitsValue(parts[1], 0), 1)
           ELSE Ratio(DigitsValue(parts[1] \o parts[2], 0), 10 ^ Len(parts[2]))
      ELSE NaN

Range(min, max) == [min |-> min, max |-> max]

\* the map callback of parseRanges: one token to a Range, or to nothing
ParseToken(token) ==
  LET parts == Split(token, "-")
      min   == Number(Trim(parts[1]))
      max   == IF Len(parts) >= 2 THEN Number(Trim(parts[2])) ELSE min
  IN  IF IsNaN(min) \/ IsNaN(max) THEN <<>> ELSE <<Range(min, max)>>

RECURSIVE ParseTokens(_)
ParseTokens(tokens) ==
  IF tokens = <<>> THEN <<>>
  ELSE (IF Trim(Head(tokens)) = <<>> THEN <<>>
        ELSE ParseToken(Trim(Head(tokens))))
       \o ParseTokens(Tail(tokens))

\* parseRanges; rangeStr.present is FALSE for an undefined range string
parseRanges(rangeStr) ==
  IF ~rangeStr.present \/ rangeStr.text = <<>> THEN <<>>
  ELSE ParseTokens(Split(rangeStr.text, ","))

\* amountMatchesRanges with both bounds exclusive
RECURSIVE amountMatchesRangesExclusive(_, _)
amountMatchesRangesExclusive(amount, ranges) ==
  IF ranges = <<>> THEN FALSE
  ELSE IF /\ ~Leq(amount, Head(ranges).min)
          /\ ~Leq(Head(ranges).max, amount) THEN TRUE
  ELSE amountMatchesRangesExclusive(amount, Tail(ranges))

RECURSIVE amountMatchesRanges(_, _)
amountMatchesRanges(amount, ranges) ==
  IF ranges = <<>> THEN FALSE
  ELSE IF /\ Leq(Head(ranges).min, amount)
          /\ Leq(amount, Head(ranges).max) THEN TRUE
  ELSE amountMatchesRanges(amount, Tail(ranges))

\* ---- the configurations and blocks processBlock is given

\* a ranges text of the configuration, with the intervals it stands for
RangeStr(text, intervals) ==
  [present |-> TRUE, text |-> text, intervals |-> intervals]

Whole(n) == Ratio(n, 1)

RangeStrs ==
  { [present |-> FALSE, text |-> <<>>, intervals |-> <<>>],
    RangeStr(<<>>, <<>>),
    RangeStr(<<"0", ".", "5", "-", "1", ",", "1", "-", "5">>,
             <<Range(Ratio(1, 2), Whole(1)), Range(Whole(1), Whole(5))>>),
    RangeStr(<<"5", "-", "1", "0", ",", " ", "2", "0">>,
             <<Range(Whole(5), Whole(10)), Range(Whole(20), Whole(20))>>),
    RangeStr(<<" ", "2", " ", ",", ",", "a", "b", "c">>,
             <<Range(Whole(2), Whole(2))>>),
    RangeStr(<<"a", "b", "c", ",", "2", "-", "1">>,
             <<Range(Whole(2), Whole(1))>>) }

\* the address watched under label l
WatchedAddress(l) ==
  CASE l = 1 -> CEX
    [] l = 2 -> RECEIVER
    [] OTHER -> "ColdWallet"

Config(l, rangeStr) ==
  [label |-> l, address |-> WatchedAddress(l), ranges |-> rangeStr]

ConfigLists == {[l \in Labels |-> Config(l, f[l])] : f \in [Labels -> RangeStrs]}

HALF_SOL == 500000000

Transfer(src, dst, lamports) ==
  Parsed("system", "transfer", TRUE, src, dst, lamports)

\* transactions of a block, each with metadata
BlockTxs ==
  { Tx(TRUE, FALSE, TRUE, <<Transfer(CEX, RECEIVER, LAMPORTS_PER_SOL)>>),
    Tx(TRUE, TRUE, FALSE,
       << Raw(2, "bytes", TransferPayload(HALF_SOL), <<0, 1>>),
          Raw(2, "bytes", TransferPayload(2 * LAMPORTS_PER_SOL), <<0, 1>>) >>),
    Tx(TRUE, FALSE, TRUE, <<Transfer(RECEIVER, CEX, 2 * LAMPORTS_PER_SOL)>>),
    Tx(TRUE, FALSE, TRUE,
       <<Parsed("spl-token", "transfer", TRUE, CEX, RECEIVER, LAMPORTS_PER_SOL)>>),
    Tx(TRUE, FALSE, TRUE, <<Transfer(CEX, undefined, LAMPORTS_PER_SOL)>>),
    Tx(TRUE, TRUE, FALSE, <<NullInstr>>) }

\* a block: every transaction carries its signature, here its position
Blocks ==
  UNION {{[n \in 1..len |-> [signature |-> n, transaction |-> f[n]]] :
            f \in [1..len -> BlockTxs]} : len \in 0..MaxTxs}

NoOutflow == Outflow(Ratio(0, 1), undefined)

\* what the loop nest of processBlock goes through for transaction n and
\* configuration c: the parser's Outflows, or the parser throwing
VisitsOf(block, cfgs, n, c) ==
  LET r == parseBlockTransactions(block[n].transaction, cfgs[c].address)
  IN  IF r.threw
      THEN <<[n |-> n, c |-> c, k |-> 0, threw |-> TRUE, outflow |-> NoOutflow]>>
      ELSE [k \in 1..Len(r.results) |->
              [n |-> n, c |-> c, k |-> k, threw |-> FALSE,
               outflow |-> r.results[k]]]

\* for (tx of blockData.transactions) for (cfg of configs) for (outflow ...)
RECURSIVE VisitsFrom(_, _, _)
VisitsFrom(block, cfgs, p) ==
  IF p > Len(block) * Len(cfgs) THEN <<>>
  ELSE VisitsOf(block, cfgs,
                ((p - 1) \div Len(cfgs)) + 1, ((p - 1) % Len(cfgs)) + 1)
       \o VisitsFrom(block, cfgs, p + 1)

Visits == VisitsFrom(blockData, configs, 1)

\* what one pass of the innermost loop does with a visit: "throw" (the parser
\* threw, or receiver.slice of an undefined receiver), "alert", or "pass"
Outcome(v) ==
  IF v.threw \/ v.outflow.receiver = undefined THEN "throw"
  ELSE IF amountMatchesRanges(v.outflow.amount, parseRanges(configs[v.c].ranges))
  THEN "alert"
  ELSE "pass"

\* the loops from visit i on: the first visit that is not passed over and
\* what happens there, or the end of the loops
RECURSIVE Advance(_, _)
Advance(vs, i) ==
  IF i > Len(vs) THEN [at |-> Len(vs), outcome |-> "end"]
  ELSE LET outcome == Outcome(vs[i])
       IN  IF outcome = "pass" THEN Advance(vs, i + 1)
           ELSE [at |-> i, outcome |-> outcome]

NextStop == Advance(Visits, visited + 1)

\* the alert message of a visit, with the place in the loop nest it is for
Alert(v) ==
  [n |-> v.n, c |-> v.c, k |-> v.k,
   label |-> configs[v.c].label,
   amount |-> v.outflow.amount,
   receiver |-> v.outflow.receiver,
   signature |-> blockData[v.n].signature]

InitRun ==
  /\ BlockIdle /\ SubscriptionIdle /\ LogIdle /\ ParserIdle
  /\ blockData \in Blocks
  /\ configs \in ConfigLists
  /\ alerts = <<>>
  /\ visited = 0
  /\ runPc = "scan"

\* the loops run on to the next matching outflow and call sendAlert
SendAlert ==
  /\ runPc = "scan"
  /\ LET stop == NextStop
     IN  /\ stop.outcome = "alert"
         /\ alerts' = Append(alerts, Alert(Visits[stop.at]))
         /\ visited' = stop.at
  /\ runPc' = "await"
  /\ UNCHANGED <<blockData, configs>>
  /\ UNCHANGED outsideRun

\* await sendAlert(message) returns
AlertReturns ==
  /\ runPc = "await"
  /\ runPc' = "scan"
  /\ UNCHANGED <<blockData, configs, alerts, visited>>
  /\ UNCHANGED outsideRun

\* await sendAlert(message) throws: the catch block takes over
AlertThrows ==
  /\ runPc = "await"
  /\ runPc' = "failed"
  /\ UNCHANGED <<blockData, configs, alerts, visited>>
  /\ UNCHANGED outsideRun

\* the loops run into an exception: the catch block takes over
ProcessThrows ==
  /\ runPc = "scan"
  /\ LET stop == NextStop
     IN  /\ stop.outcome = "throw"
         /\ visited' = stop.at
  /\ runPc' = "failed"
  /\ UNCHANGED <<blockData, configs, alerts>>
  /\ UNCHANGED outsideRun

\* the loops end: the block is processed to completion
BlockDone ==
  /\ runPc = "scan"
  /\ LET stop == NextStop
     IN  /\ stop.outcome = "end"
         /\ visited' = stop.at
  /\ runPc' = "done"
  /\ UNCHANGED <<blockData, configs, alerts>>
  /\ UNCHANGED outsideRun

NextRun ==
  \/ SendAlert
  \/ AlertReturns
  \/ AlertThrows
  \/ ProcessThrows
  \/ BlockDone

SpecRun == InitRun /\ [][NextRun]_vars

\* ---------------------------------------------------------------- claims

\* slot s was marked by a skip classification or by a completed processBlock
Settled(s) == skipCount[s] + doneCount[s] > 0

\* C1: in block mode the checkpoint lastSlot changes only by steps of exactly
\* +1, and every slot it steps onto is one that a skip classification or a
\* completed processBlock has marked: it is in processedSlots when the step
\* starts, or the step itself marks it before attemptAdvance folds it in.
C1_CheckpointStepsOntoMarked ==
  [][(Running /\ lastSlot' # lastSlot) =>
       /\ lastSlot' = lastSlot + 1
       /\ lastSlot' \in Slots
       /\ skipCount'[lastSlot'] + doneCount'[lastSlot'] > 0
       /\ \/ lastSlot' \in processedSlots
          \/ skipCount'[lastSlot'] > skipCount[lastSlot']
          \/ doneCount'[lastSlot'] > doneCount[lastSlot']]_vars

\* C1 witness: the checkpoint reached the last slot although some getBlock
\* call failed transiently and some block was processed (not skipped)
C1_Witness ==
  /\ lastSlot = MaxSlot
  /\ Settled(MaxSlot)
  /\ Total(failCount) > 0
  /\ Total(doneCount) > 0

\* the contiguous end: the largest k >= c with all of c+1..k in P
ContigEnd(c, P) ==
  CHOOSE k \in c..(AdvMaxSlot + 1) :
    /\ \A j \in (c + 1)..k : j \in P
    /\ (k + 1) \notin P

\* C2: one attemptAdvance call that runs to completion on its own, started at
\* checkpoint c with ProcessedSet P, ends with lastSlot = the largest k >= c
\* such that all of c+1..k are in P, and with exactly c+1..k removed from P.
C2_AdvanceIsContiguousPrefix ==
  callStart.state = "done" =>
    LET k == ContigEnd(callStart.c, callStart.P) IN
      /\ lastSlot = k
      /\ processedSlots = callStart.P \ ((callStart.c + 1)..k)

\* C2 witness: checkpoint 4 and ProcessedSet {5,7} end at checkpoint 5 and {7}
C2_Witness ==
  /\ callStart = [state |-> "done", c |-> 4, P |-> {5, 7}]
  /\ lastSlot = 5
  /\ processedSlots = {7}

\* C3: in every state there is at most one getBlock call per slot that has
\* not yet returned.
C3_OneOutstandingFetchPerSlot == \A s \in Slots : fetching[s] <= 1

\* C4: when no error of any kind occurs (no processing error, and no failed
\* checkpoint write either), a slot's block is processed at most once and the
\* slot is marked in processedSlots at most once.
C4_ProcessedAtMostOnce ==
  (Total(errCount) = 0 /\ writeFailCount = 0) =>
    \A s \in Slots : doneCount[s] <= 1 /\ skipCount[s] + doneCount[s] <= 1

\* C5: a getBlock call classified as skipped marks the slot (it is then in
\* processedSlots or has just become the checkpoint), attempts the advance
\* (attemptAdvance is suspended at its save or there is nothing to fold),
\* pushes nothing on the process queue and starts no worker; and from then on
\* no getBlock call is ever started for that slot again.
C5_SkipIsTerminal ==
  [][\A s \in Slots :
       /\ skipCount'[s] > skipCount[s] =>
            /\ s \in processedSlots' \/ lastSlot' = s
            /\ \/ (lastSlot' + 1) \notin processedSlots'
               \/ \E t \in advTasks' \ advTasks :
                    t.slot = s /\ t.owner \in {"try", "catch"} /\ t.val = lastSlot'
            /\ processQueue' = processQueue
            /\ procActive' = procActive
       /\ skipCount[s] > 0 => fetchCalls'[s] = fetchCalls[s]]_vars

\* C5 witness: slot 2 was skipped while slot 1 is still open, so slot 2 waits in
\* processedSlots above the checkpoint, and the feed may report it again
C5_Witness ==
  /\ skipCount[2] > 0
  /\ 2 \in processedSlots
  /\ lastSlot = 0
  /\ 2 \notin inFlightFetches
  /\ Observed < MaxObserve

\* C6: a transient getBlock failure leaves the slot out of inFlightFetches with
\* one more refetch timer pending; no refetch timer stays pending for ever (also
\* when the feed never reports the slot again: again and again none is
\* pending); and a timer that fires issues one more getBlock call for its slot,
\* unless the slot is by then marked processed or covered by the checkpoint.
C6_TransientFailureIsRetried ==
  /\ [][\A s \in Slots :
          /\ failCount'[s] > failCount[s] =>
               /\ s \notin inFlightFetches'
               /\ retryTimers'[s] = retryTimers[s] + 1
          /\ retryTimers'[s] < retryTimers[s] =>
               \/ /\ fetchCalls'[s] = fetchCalls[s] + 1
                  /\ fetching'[s] = fetching[s] + 1
               \/ s <= lastSlot
               \/ s \in processedSlots]_vars
  /\ []<>(\A s \in Slots : retryTimers[s] = 0)

\* C6 witness: slot 1 failed transiently, its timer has fired and issued the
\* second getBlock call, which is outstanding
C6_Witness ==
  /\ failCount[1] = 1
  /\ retryTimers[1] = 0
  /\ fetchCalls[1] = 2
  /\ fetching[1] = 1
  /\ okCount[1] = 0
  /\ skipCount[1] = 0

\* C7: a processing error leaves processedSlots and the checkpoint as they
\* were and arms one re-enqueue timer for the slot; when that timer fires the
\* slot is back in the queue or with a worker; the slot is then processed
\* again (a worker takes it up); and a fetched block is never lost: as long as
\* its slot was never marked, the slot is in the queue, with a worker or on a
\* re-enqueue timer.
C7_ProcessingErrorRequeues ==
  /\ [](\A s \in Slots :
          (okCount[s] > 0 /\ ~Settled(s)) =>
            \/ CountIn(processQueue, s) > 0
            \/ procActive[s] > 0
            \/ requeueTimers[s] > 0)
  /\ [][\A s \in Slots :
          /\ errCount'[s] > errCount[s] =>
               /\ processedSlots' = processedSlots
               /\ lastSlot' = lastSlot
               /\ doneCount' = doneCount
               /\ requeueTimers'[s] = requeueTimers[s] + 1
          /\ requeueTimers'[s] < requeueTimers[s] =>
               CountIn(processQueue', s) + procActive'[s]
                 = CountIn(processQueue, s) + procActive[s] + 1]_vars
  /\ \A s \in Slots :
       (errCount[s] > 0 /\ requeueTimers[s] > 0) ~> (procActive[s] > 0)

\* processBlock calls that have started and not reached their finally
ActiveWorkers ==
  Total(procActive) + Cardinality({t \in advTasks : t.owner = "proc"})

\* C8: in every state processWorkers is the number of processBlock calls in
\* progress and lies between 0 and processConcurrency.
C8_WorkersWithinBound ==
  /\ processWorkers = ActiveWorkers
  /\ processWorkers >= 0
  /\ processWorkers <= processConcurrency

\* C8 witness: every worker is busy and a block waits in the queue
C8_Witness ==
  /\ processWorkers = processConcurrency
  /\ Len(processQueue) > 0

\* C9: no write that lands in the checkpoint file stores a value smaller than
\* the one the file held before it.
C9_FileOnlyIncreases ==
  [][(Running /\ file' # file) => file' > file]_vars

\* C10: startup takes the scheduler's checkpoint from the checkpoint file when
\* the file holds one.
C10_StartupResumesFromFile ==
  [][(phase = "boot" /\ phase' = "running" /\ file # NoFile) =>
       lastSlot' = file]_vars

\* C11: in every state in which no attemptAdvance call is suspended at its
\* save, reached by slot updates, skips and completed processBlock runs alone
\* (no transient failure, no processing error, no failed write), processedSlots
\* holds no slot <= lastSlot and does not hold lastSlot + 1.
C11_ProcessedSetAboveCheckpoint ==
  (Running /\ advTasks = {} /\ Faults = 0) =>
    /\ \A s \in processedSlots : s > lastSlot
    /\ (lastSlot + 1) \notin processedSlots

\* C12: after a failed subscribe attempt the loop makes another attempt when
\* its backoff wait ends exactly if shuttingDown is not set then; as long as the
\* process runs, every failed attempt is followed by a further one (however many
\* have failed), and an attempt the provider accepts leaves the loop ACTIVE;
\* once shuttingDown is set no subscribe attempt is made.
C12_RetriesUntilShutdown ==
  /\ [][(subPc = "waiting" /\ exitSignal' = exitSignal) =>
          ((attempts' = attempts + 1) <=> ~shuttingDown)]_vars
  /\ \A n \in 1..MaxFailures :
       (attempts = n /\ subPc # "active") ~> (attempts > n \/ Exited)
  /\ [][(attempts' = attempts + 1 /\ subscriptionIds' # {}) =>
          subPc' = "active"]_vars
  /\ [][shuttingDown => attempts' = attempts]_vars

\* C12 witness: the signal set shuttingDown while the loop was in its backoff
\* wait after several failed attempts
C12_Witness == shuttingDown /\ subPc = "waiting" /\ attempts >= 2

\* C13: backoffMs always lies in [500, 60000]; the wait that follows the k-th
\* failed attempt in a row is min(500 * 2^(k-1), 60000); after a successful
\* attempt backoffMs is 500.
C13_BackoffWithinBounds ==
  /\ backoffMs >= 500 /\ backoffMs <= 60000
  /\ subPc = "waiting" =>
       /\ streak >= 1
       /\ waitMs = Min(500 * 2^(streak - 1), 60000)
  /\ subPc = "active" => backoffMs = 500

\* C13 witness: the doubling has passed the ceiling (500 * 2^7 = 64000), the
\* loop waits 60000 ms after its 8th failed attempt or a later one
C13_Witness == subPc = "waiting" /\ streak >= 8 /\ waitMs = 60000

\* the signatures of a sequence
SeenSet(seen) == {seen[i] : i \in 1..Len(seen)}

\* C14: processedTxs never holds more than processedTxsMaxSize signatures
\* (and no signature twice); an event that adds a signature and so makes the
\* size exceed processedTxsMaxSize evicts exactly the processedTxsMaxSize / 2
\* oldest signatures, in insertion order, and keeps the one just added, the
\* remaining ones staying in their order; an add without overflow evicts nothing.
C14_SeenSetBounded ==
  /\ [](/\ Len(processedTxs) <= processedTxsMaxSize
        /\ Cardinality(SeenSet(processedTxs)) = Len(processedTxs))
  /\ [][processedTxs' # processedTxs =>
          LET old == processedTxs
              new == processedTxs'
              sig == new[Len(new)]
              half == processedTxsMaxSize \div 2
          IN /\ sig \notin SeenSet(old)
             /\ sig \in SeenSet(new)
             /\ IF Len(old) + 1 > processedTxsMaxSize
                THEN /\ SeenSet(old) \ SeenSet(new) = {old[i] : i \in 1..half}
                     /\ new = Append(SubSeq(old, half + 1, Len(old)), sig)
                ELSE new = Append(old, sig)]_vars

\* C14 witness: an eviction has happened (signature 1, the oldest, is gone and
\* the newest signature is in the set) and a further signature was added since
C14_Witness ==
  /\ events = 2
  /\ Len(processedTxs) = processedTxsMaxSize - processedTxsMaxSize \div 2 + 2
  /\ 1 \notin SeenSet(processedTxs)

\* C15: a label's checkpoint, in lastSlots and in the file, changes only to a
\* strictly larger slot; when every handler has ended, the value of a label for
\* which transactions were handled is the largest of their slots (or the value
\* loaded at startup, if that is larger), in lastSlots and in the file; and a
\* step of a handler of one label changes no other label's value, in lastSlots
\* or in the file.
C15_LabelCheckpointMonotonic ==
  /\ [][\A l \in Labels :
          /\ lastSlots'[l] # lastSlots[l] => lastSlots'[l] > lastSlots[l]
          /\ slotFile'[l] # slotFile[l] => slotFile'[l] > slotFile[l]]_vars
  /\ [](logTasks = {} =>
          \A l \in Labels : handledMax[l] > 0 =>
            /\ lastSlots[l] = Larger(bootSlots[l], handledMax[l])
            /\ slotFile[l] = lastSlots[l])
  /\ [][\/ lastSlots' = lastSlots /\ slotFile' = slotFile
        \/ \E t \in logTasks :
             /\ t \notin logTasks'
             /\ \A l \in Labels \ {t.label} :
                  lastSlots'[l] = lastSlots[l] /\ slotFile'[l] = slotFile[l]]_vars

\* an index resolves when it lies in the account table and the entry there
\* is an address
Resolves(keys, idx) ==
  /\ idx \in 0..(Len(keys) - 1)
  /\ keys[idx + 1].k \in {"string", "pubkey"}
  /\ keys[idx + 1].a # ""

AddressAt(keys, idx) == keys[idx + 1].a

\* the conditions under which a raw instruction is an outflow of the
\* watched address
QualifiesRaw(i, keys, cex) ==
  /\ Resolves(keys, i.programIdIndex)
  /\ AddressAt(keys, i.programIdIndex) = SYSTEM_PROGRAM
  /\ Len(i.payload) >= 12
  /\ SubSeq(i.payload, 1, 4) = <<2, 0, 0, 0>>
  /\ readBigUInt64LE(SubSeq(i.payload, 5, 12)) > 0
  /\ Len(i.accounts) >= 2
  /\ Resolves(keys, i.accounts[1])
  /\ AddressAt(keys, i.accounts[1]) = cex
  /\ Resolves(keys, i.accounts[2])

RECURSIVE ExpectedRaw(_, _, _)
ExpectedRaw(instrs, keys, cex) ==
  IF instrs = <<>> THEN <<>>
  ELSE LET i == Head(instrs)
       IN  (IF QualifiesRaw(i, keys, cex)
            THEN <<Outflow(Ratio(readBigUInt64LE(SubSeq(i.payload, 5, 12)),
                                 1000000000),
                           AddressAt(keys, i.accounts[2]))>>
            ELSE <<>>)
           \o ExpectedRaw(Tail(instrs), keys, cex)

RawEncoded(t) ==
  \A n \in 1..Len(t.instructions) : t.instructions[n].kind = "raw"

Finished == parserPc \in {"returned", "threw"}

\* C16: for a raw-encoded transaction (with metadata) the call returns, in
\* instruction order, exactly one Outflow per instruction whose program
\* index resolves to the System Program, whose payload has at least 12 bytes
\* starting with [2,0,0,0] and a little-endian u64 amount > 0 in bytes 4..11,
\* and which has at least two account indices, the first resolving to the
\* watched address and the second to an address of the account table; the
\* Outflow has amount lamports / 1e9 and the address at the second index as
\* receiver; every other instruction contributes no Outflow.
C16_RawOutflowsExact ==
  (Finished /\ tx.meta /\ RawEncoded(tx)) =>
    /\ parserPc = "returned"
    /\ results = ExpectedRaw(tx.instructions, AccountKeys(tx), cexAddress)

\* the conditions under which a structured instruction is an outflow of the
\* watched address
QualifiesStructured(i, cex) ==
  /\ i.program = "system"
  /\ i.type = "transfer"
  /\ i.source # undefined
  /\ i.destination # undefined
  /\ i.lamports > 0
  /\ i.source = cex

RECURSIVE ExpectedStructured(_, _)
ExpectedStructured(instrs, cex) ==
  IF instrs = <<>> THEN <<>>
  ELSE LET i == Head(instrs)
       IN  (IF QualifiesStructured(i, cex)
            THEN <<Outflow(Ratio(i.lamports, 1000000000), i.destination)>>
            ELSE <<>>)
           \o ExpectedStructured(Tail(instrs), cex)

StructuredEncoded(t) ==
  \A n \in 1..Len(t.instructions) : t.instructions[n].kind = "parsed"

\* C17: for a structured-encoded transaction (with metadata) the call returns
\* an Outflow for an instruction if and only if its program is the System
\* Program, its type is "transfer", it carries a source and a destination,
\* its amount is strictly positive and its source is the watched address; the
\* Outflow has amount lamports / 1e9 and the destination as receiver, so no
\* Outflow is without a destination address.
C17_StructuredOutflowsExact ==
  (Finished /\ tx.meta /\ StructuredEncoded(tx)) =>
    /\ parserPc = "returned"
    /\ results = ExpectedStructured(tx.instructions, cexAddress)
    /\ \A n \in 1..Len(results) : results[n].receiver # undefined

\* the Outflows of the well-formed qualifying instructions of a transaction
RECURSIVE ExpectedOutflows(_, _, _)
ExpectedOutflows(instrs, keys, cex) ==
  IF instrs = <<>> THEN <<>>
  ELSE LET i == Head(instrs)
       IN  (CASE i.kind = "raw"    -> ExpectedRaw(<<i>>, keys, cex)
              [] i.kind = "parsed" -> ExpectedStructured(<<i>>, cex)
              [] OTHER             -> <<>>)
           \o ExpectedOutflows(Tail(instrs), keys, cex)

\* a occurs in b, in order
RECURSIVE Contains(_, _)
Contains(b, a) ==
  IF a = <<>> THEN TRUE
  ELSE IF b = <<>> THEN FALSE
  ELSE IF Head(a) = Head(b) THEN Contains(Tail(b), Tail(a))
  ELSE Contains(Tail(b), a)

\* C18: the call never fails because of one malformed instruction: for every
\* transaction, with or without metadata, and every position of a malformed
\* or unrecognised instruction (missing fields, out-of-range index, short or
\* non-decodable payload, null entry), the call returns normally and its
\* result contains the Outflows of all the well-formed qualifying
\* instructions, those before and those after the malformed one.
C18_MalformedInstructionSkipped ==
  Finished =>
    /\ parserPc = "returned"
    /\ Contains(results,
                ExpectedOutflows(tx.instructions, AccountKeys(tx), cexAddress))

\* the amount lies within [min, max], both included, of one of the intervals
InSomeRange(amount, intervals) ==
  \E i \in 1..Len(intervals) :
    /\ Leq(intervals[i].min, amount)
    /\ Leq(amount, intervals[i].max)

AlertsFor(n, c, k) ==
  Cardinality({i \in 1..Len(alerts) :
                 alerts[i].n = n /\ alerts[i].c = c /\ alerts[i].k = k})

C20_UnsubscribeBeforeExit == Exited => subscriptionIds \subseteq removed

\* C21: in log mode, whenever the subscription loop has finished as active,
\* every configured watched address has a live log subscription, also when
\* one attempt succeeds for some addresses and fails for others: a subscribe
\* error for a single address leads to a retry.
C21_ActiveMeansAllSubscribed ==
  (mode = "log" /\ subPc = "active") => subscriptionIds = Labels

\* C22: no queued block is stranded: every item pushed on the process queue
\* is eventually dequeued and processed, even if no further slot is observed
\* or fetched; when a worker finishes while the queue is not empty, a queued
\* item is subsequently started (every started worker eventually finishes).
C22_NoQueuedBlockStranded ==
  /\ \A s \in Slots :
       (CountIn(processQueue, s) > 0) ~> (CountIn(processQueue, s) = 0)
  /\ (processQueue # <<>> /\ processWorkers < processConcurrency)
       ~> (processQueue = <<>> \/ processWorkers = processConcurrency)

\* C23: in log mode deduplication by signature never hides an outflow of
\* another watched address: when one transaction signature is delivered by
\* the log subscriptions of two watched addresses, the transaction is parsed
\* and range-matched against each of them, in whichever order the two events
\* arrive; so an event is dropped as a duplicate only if an event of the same
\* signature and the same address went on to be parsed.
C23_DedupKeepsOtherAddress ==
  \A d \in dropped :
    (\E l \in Labels : <<l, d[2]>> \in admitted) => d \in admitted

====
